---- MODULE Spec2Model ----
(***************************************************************************)
(* Athena (src/app.py): a Streamlit dashboard.  Every user interaction     *)
(* re-runs the script top to bottom; the only state that survives a run is *)
(* the st.cache_data memo of the decorated functions.  The model has one   *)
(* action per page handler (Portfolio, Risk, Backtest) and one for the     *)
(* price provider changing what it would answer.                           *)
(*                                                                         *)
(* Numbers: closes, quantities and cost bases are integers; every float    *)
(* the code derives from them (returns, moving averages, beta, alpha) is   *)
(* an exact fraction [n, d], with d = 0 for the IEEE specials: n = 0 is    *)
(* NaN, n = 1 is +inf, n = -1 is -inf.                                     *)
(***************************************************************************)
EXTENDS Integers, Sequences, FiniteSets, TLC

VARIABLES
    config,      \* import-time globals: OPENBB_AVAILABLE, obb's shape, yf
    market,      \* what the providers would answer now, per ticker
    priceCache,  \* st.cache_data memo of get_price_history
    valCache,    \* st.cache_data memo of build_portfolio_valuation
    runs,        \* script runs so far in this server process
    shown,       \* outcome of the last Portfolio page run
    risk,        \* outcome of the last Risk page run
    bt           \* outcome of the last Backtest page run

vars == <<config, market, priceCache, valCache, runs, shown, risk, bt>>

(***************************************************************************)
(* Bounds of the explored inputs.                                          *)
(***************************************************************************)
\* trading dates 1..MaxDate in the histories of the portfolio specifications
MaxDate == 2
\* rows of an uploaded portfolio
MaxPositions == 2
\* script runs of the session specification
MaxRuns == 3
\* bars of the histories of the risk specification
MaxRiskBars == 3
\* bars of the histories of the backtest specification
MaxBtBars == 4
\* SMA windows offered by the (scaled-down) sliders
MaxWindow == 2
\* closes 1..MaxClose in the histories of the risk and backtest specifications
MaxClose == 3

(***************************************************************************)
(* Exact fractions standing for the floats.                                *)
(***************************************************************************)
Abs(x) == IF x < 0 THEN -x ELSE x

Sign(x) == IF x < 0 THEN -1 ELSE IF x > 0 THEN 1 ELSE 0

RECURSIVE GCD(_, _)
GCD(a, b) == IF b = 0 THEN a ELSE GCD(b, a % b)

\* the fraction n/d in lowest terms; n/0 is NaN or an infinity
Reduced(n, d, g) == [n |-> (Sign(d) * n) \div g, d |-> Abs(d) \div g]

Rat(n, d) ==
    IF d = 0 THEN [n |-> Sign(n), d |-> 0]
    ELSE Reduced(n, d, GCD(Abs(n), Abs(d)))

NaN == [n |-> 0, d |-> 0]
Zero == [n |-> 0, d |-> 1]
One == [n |-> 1, d |-> 1]
FromInt(i) == [n |-> i, d |-> 1]

IsNaN(x) == x = NaN
IsFinite(x) == x.d # 0

FAdd(a, b) ==
    IF a.d = 0 /\ b.d = 0
    THEN (IF a = b THEN a ELSE NaN)
    ELSE Rat(a.n * b.d + b.n * a.d, a.d * b.d)

FNeg(a) == [n |-> -a.n, d |-> a.d]

FSub(a, b) == FAdd(a, FNeg(b))

FMul(a, b) == Rat(a.n * b.n, a.d * b.d)

FInv(a) == Rat(a.d, a.n)

FDiv(a, b) == FMul(a, FInv(b))

\* a > b on floats: false when either side is NaN
FGt(a, b) ==
    /\ ~IsNaN(a)
    /\ ~IsNaN(b)
    /\ IF a.d = 0 \/ b.d = 0
       THEN (IF a.d = 0 /\ b.d = 0 THEN a.n > b.n
             ELSE IF a.d = 0 THEN a.n > 0
             ELSE b.n < 0)
       ELSE a.n * b.d > b.n * a.d

RECURSIVE FSum(_)
FSum(s) == IF s = <<>> THEN Zero ELSE FAdd(Head(s), FSum(Tail(s)))

\* Series.mean(): NaN of an empty series
FMean(s) == IF s = <<>> THEN NaN ELSE FDiv(FSum(s), FromInt(Len(s)))

\* Series.pct_change(): v[t] / v[t-1] - 1, undefined (NaN) at the first row
pct_change(s) ==
    [t \in 1..Len(s) |->
        IF t = 1 THEN NaN ELSE FSub(FDiv(s[t], s[t - 1]), One)]

\* Series.fillna(v): v wherever the value is NaN
fillna(s, v) == [t \in 1..Len(s) |-> IF IsNaN(s[t]) THEN v ELSE s[t]]

\* Series.shift(1): the previous row's value, NaN at the first row
shift1(s) == [t \in 1..Len(s) |-> IF t = 1 THEN NaN ELSE s[t - 1]]

\* (1 + r).cumprod()
Grown(front, step) ==
    Append(front,
           IF front = <<>> THEN step ELSE FMul(front[Len(front)], step))

RECURSIVE cumprod1p(_)
cumprod1p(r) ==
    IF r = <<>> THEN <<>>
    ELSE Grown(cumprod1p(SubSeq(r, 1, Len(r) - 1)), FAdd(One, r[Len(r)]))

IntSeries(s) == [t \in 1..Len(s) |-> FromInt(s[t])]

(***************************************************************************)
(* DataFrames, as far as the code looks at them: where the dates are held  *)
(* (a named index, or a column), what the close column is called, which    *)
(* other columns exist, and the rows (bars, ascending by date, one per     *)
(* date, as every provider delivers them).                                 *)
(***************************************************************************)
Tickers == {"AAA", "BBB"}

\* pd.DataFrame(): no columns, no rows
EmptyFrame ==
    [index |-> "range", dateCol |-> "", closeCol |-> "", extra |-> {},
     bars |-> <<>>]

Columns(df) == ({df.dateCol, df.closeCol} \ {""}) \cup df.extra

\* DataFrame.empty
IsEmpty(df) == df.bars = <<>>

\* the new name of column c under the renaming m
Renamed(m, c) == IF c \in DOMAIN m THEN m[c] ELSE c

\* DataFrame.rename(columns=m): the index keeps its name
RenameColumns(df, m) ==
    [df EXCEPT !.dateCol = Renamed(m, @),
               !.closeCol = Renamed(m, @),
               !.extra = {Renamed(m, c) : c \in @}]

\* DataFrame.reset_index(): a named index becomes a column of that name, the
\* default RangeIndex becomes a column "index" of row numbers
reset_index(df) ==
    IF df.index = "range"
    THEN [df EXCEPT !.extra = @ \cup {"index"}]
    ELSE [df EXCEPT !.dateCol = df.index, !.index = "range"]

\* {"close": "Close", ...} of the v4 route
V4Names == [c \in {"close"} |-> "Close"]

\* str.title on the column names of the legacy route
TitleNames ==
    [c \in {"close", "date", "index"} |->
        CASE c = "close" -> "Close"
          [] c = "date" -> "Date"
          [] c = "index" -> "Index"]

\* {"Date": "date"} of the yfinance fallback
YfNames == [c \in {"Date"} |-> "date"]

(***************************************************************************)
(* The providers.  config is fixed by the imports: sdk = "v4" is           *)
(* `from openbb import obb` (obb.equity.price exists, obb.stocks does      *)
(* not), "legacy" is openbb_terminal.sdk (obb.stocks only), "none" leaves  *)
(* OPENBB_AVAILABLE false; yf is whether yfinance imported.  rawDate is    *)
(* how the installed SDK hands out dates.  market[t] is what a request for *)
(* t meets now: the SDK call raises, answers something that is no          *)
(* DataFrame, or answers a frame of t's bars; yfinance raises or answers.  *)
(***************************************************************************)
Configs ==
    {[openbb |-> FALSE, sdk |-> "none", yf |-> y, rawDate |-> "index"] :
        y \in BOOLEAN}
    \cup [openbb : {TRUE}, sdk : {"v4", "legacy"}, yf : BOOLEAN,
          rawDate : {"column", "index"}]

\* the frame the SDK serialises for these bars
RawObbFrame(cfg, bars) ==
    [index |-> IF cfg.rawDate = "index" THEN "date" ELSE "range",
     dateCol |-> IF cfg.rawDate = "column" THEN "date" ELSE "",
     closeCol |-> IF cfg.sdk = "v4" THEN "close" ELSE "Close",
     extra |-> {},
     bars |-> bars]

\* Ticker.history(): Close column, dates in an index named Date
RawYfFrame(bars) ==
    [index |-> "Date", dateCol |-> "", closeCol |-> "Close", extra |-> {},
     bars |-> bars]

Returned(df) == [status |-> "ok", df |-> df, exc |-> ""]

Raised(exc) == [status |-> "raise", df |-> EmptyFrame, exc |-> exc]

Fallthrough == [status |-> "next", df |-> EmptyFrame, exc |-> ""]

\* lines 54-61: obb.equity.price.historical, any exception swallowed
EquityRoute(cfg, p) ==
    IF cfg.sdk = "v4" /\ p.obb = "frame" /\ p.bars # <<>>
    THEN Returned(RenameColumns(RawObbFrame(cfg, p.bars), V4Names))
    ELSE Fallthrough

\* lines 62-68: obb.stocks.load, any exception swallowed (a v4 obb has no
\* attribute stocks: AttributeError, swallowed too)
StocksRoute(cfg, p) ==
    IF cfg.sdk = "legacy" /\ p.obb = "frame" /\ p.bars # <<>>
    THEN Returned(RenameColumns(RawObbFrame(cfg, p.bars), TitleNames))
    ELSE Fallthrough

\* lines 69-74: the yfinance fallback, outside any try
YfRoute(cfg, p) ==
    IF ~cfg.yf THEN Returned(EmptyFrame)
    ELSE IF p.yf = "raise" THEN Raised("ProviderError")
    ELSE Returned(RenameColumns(reset_index(RawYfFrame(p.bars)), YfNames))

\* the first route that returned
FirstReturned(e, s, y) ==
    IF e.status = "ok" THEN e ELSE IF s.status = "ok" THEN s ELSE y

\* the body of get_price_history (a cache miss)
FetchHistory(cfg, p) ==
    FirstReturned(IF cfg.openbb THEN EquityRoute(cfg, p) ELSE Fallthrough,
                  IF cfg.openbb THEN StocksRoute(cfg, p) ELSE Fallthrough,
                  YfRoute(cfg, p))

(***************************************************************************)
(* st.cache_data: the memo is keyed by the arguments; a hit returns the    *)
(* stored value without running the body; a value is stored when the body  *)
(* returns, nothing is stored when it raises; no ttl is given.             *)
(***************************************************************************)
Periods == {"2y", "3y", "5y"}

NoEntry == [hit |-> FALSE, df |-> EmptyFrame]

EmptyPriceCache == [k \in Tickers \X Periods |-> NoEntry]

\* a memo that never answers
CacheNever(cache, k) == FALSE

CacheHit(cache, k) == cache[k].hit

Called(r, fetched) ==
    [status |-> r.status, df |-> r.df, exc |-> r.exc, fetched |-> fetched]

\* get_price_history(ticker, period): [status, df, exc, fetched]
get_price_history(cache, cfg, mkt, t, period) ==
    IF CacheHit(cache, <<t, period>>)
    THEN Called(Returned(cache[<<t, period>>].df), FALSE)
    ELSE Called(FetchHistory(cfg, mkt[t]), TRUE)

\* the memo after the calls for the tickers ts answered res[t]
StoreHistories(cache, res, ts, period) ==
    [k \in Tickers \X Periods |->
        IF k[2] = period /\ k[1] \in ts /\ res[k[1]].status = "ok"
        THEN [hit |-> TRUE, df |-> res[k[1]].df]
        ELSE cache[k]]

(***************************************************************************)
(* Sequence helpers.                                                       *)
(***************************************************************************)
Min(S) == CHOOSE x \in S : \A y \in S : x <= y

RECURSIVE SortedSeq(_)
SortedSeq(S) ==
    IF S = {} THEN <<>> ELSE <<Min(S)>> \o SortedSeq(S \ {Min(S)})

RECURSIVE SumSeq(_)
SumSeq(s) == IF s = <<>> THEN 0 ELSE Head(s) + SumSeq(Tail(s))

\* the elements of s at the indices in S that are >= i, in order
RECURSIVE PickFrom(_, _, _)
PickFrom(s, S, i) ==
    IF i > Len(s) THEN <<>>
    ELSE (IF i \in S THEN <<s[i]>> ELSE <<>>) \o PickFrom(s, S, i + 1)

Range(s) == {s[i] : i \in 1..Len(s)}

DatesOf(df) == {df.bars[i].date : i \in 1..Len(df.bars)}

\* the close of df's bar on date d, 0 when it has none
CloseOn(df, d) ==
    IF d \in DatesOf(df)
    THEN (CHOOSE b \in Range(df.bars) : b.date = d).close
    ELSE 0

(***************************************************************************)
(* portfolio_from_csv (lines 158-165).  A file is its header (the raw      *)
(* column names) and its rows; a row gives the raw ticker text and the two *)
(* numbers.  The function is memoised on the file's bytes; it reads        *)
(* nothing else, so the memo cannot be observed and is left out.           *)
(***************************************************************************)
\* c.strip().lower() on the header names that occur
StripLower(c) ==
    CASE c \in {"ticker", " Ticker", "TICKER "} -> "ticker"
      [] c \in {"quantity", "Quantity ", " QUANTITY"} -> "quantity"
      [] c \in {"cost_basis", "Cost_Basis", " COST_BASIS"} -> "cost_basis"
      [] c \in {"price", " Price"} -> "price"
      [] OTHER -> c

\* .str.upper().str.strip() on the ticker texts that occur
UpperStrip(t) ==
    CASE t \in {"AAA", "aaa", " aaa "} -> "AAA"
      [] t \in {"BBB", "bbb", " Bbb"} -> "BBB"
      [] OTHER -> t

RequiredColumns == {"ticker", "quantity", "cost_basis"}

MissingColumnsMessage ==
    "CSV deve conter as colunas: ticker, quantity, cost_basis"

\* an assert that forgets cost_basis
HeaderAcceptedLoose(cols) == {"ticker", "quantity"} \subseteq Range(cols)

\* the assert of line 163
HeaderAccepted(cols) == RequiredColumns \subseteq Range(cols)

\* lines 164-165, the header having the columns cols
ParsedWith(file, cols) ==
    IF ~HeaderAccepted(cols)
    THEN [status |-> "raise", exc |-> MissingColumnsMessage,
          columns |-> cols, pf |-> <<>>]
    ELSE IF Cardinality({i \in 1..Len(cols) : cols[i] = "ticker"}) > 1
    \* df["ticker"] is then a DataFrame, which has no .str
    THEN [status |-> "raise", exc |-> "AttributeError",
          columns |-> cols, pf |-> <<>>]
    ELSE [status |-> "ok", exc |-> "", columns |-> cols,
          pf |-> [i \in 1..Len(file.rows) |->
                    [ticker |-> UpperStrip(file.rows[i].ticker),
                     quantity |-> file.rows[i].quantity,
                     cost_basis |-> file.rows[i].cost_basis]]]

\* [status, exc, columns, pf]
portfolio_from_csv(file) ==
    ParsedWith(file, [i \in 1..Len(file.header) |-> StripLower(file.header[i])])

(***************************************************************************)
(* build_portfolio_valuation (lines 167-196).  Within one call the         *)
(* providers answer the same for a ticker, and a second call for it is a   *)
(* memo hit, so the histories of a call are one function of the ticker.    *)
(***************************************************************************)
\* line 175: hist.reset_index().rename(columns={hist.index.name or "index": "date"})
IndexKey(df) == IF df.index = "range" THEN "index" ELSE df.index

SummaryFrame(df) ==
    IF "date" \in Columns(df) THEN df
    ELSE [reset_index(df) EXCEPT
            !.dateCol = IF @ = IndexKey(df) THEN "date" ELSE @,
            !.extra = {IF c = IndexKey(df) THEN "date" ELSE c : c \in @}]

\* line 176 finds a close column under one of its two names
HasClose(df) == "Close" \in Columns(df) \/ "close" \in Columns(df)

\* the close of the first row
FirstPrice(df) == df.bars[1].close

\* line 176: float(hist.iloc[-1][...]), the close of the last row
LastPrice(df) == df.bars[Len(df.bars)].close

\* lines 177-179: one summary row
SummaryRow(pos, price) ==
    [ticker |-> pos.ticker,
     quantity |-> pos.quantity,
     last_price |-> price,
     market_value |-> pos.quantity * price,
     cost_basis |-> pos.cost_basis,
     unrealized_pnl |-> (price - pos.cost_basis) * pos.quantity]

\* line 189: h[["date", "Close"]] needs both columns
CurveColumnsPresent(df) == {"date", "Close"} \subseteq Columns(df)

\* the history each ticker's call answers, for one period
HistoriesFor(cache, cfg, mkt, period) ==
    [t \in Tickers |-> get_price_history(cache, cfg, mkt, t, period)]

\* lines 171 and 186: period="2y"
Histories(cache, cfg, mkt) == HistoriesFor(cache, cfg, mkt, "2y")

\* the positions at which the first pass raises
FirstPassRaises(positions, hist) ==
    {i \in 1..Len(positions) :
        \/ hist[positions[i].ticker].status = "raise"
        \/ /\ ~IsEmpty(hist[positions[i].ticker].df)
           /\ ~HasClose(SummaryFrame(hist[positions[i].ticker].df))}

\* the first position of bad, past the end when there is none
StopAt(bad, n) == IF bad = {} THEN n + 1 ELSE Min(bad)

\* the tickers a pass that stopped at stop has asked for
Asked(positions, stop) ==
    {positions[i].ticker : i \in {j \in 1..Len(positions) : j <= stop}}

\* one row per ticker: a later position of the same ticker is dropped
SummaryIndicesMerged(positions, hist, stop) ==
    {i \in 1..Len(positions) :
        /\ i < stop
        /\ ~IsEmpty(hist[positions[i].ticker].df)
        /\ \A j \in 1..(i - 1) : positions[j].ticker # positions[i].ticker}

\* lines 172-173: the positions before stop whose history is not empty
SummaryIndices(positions, hist, stop) ==
    {i \in 1..Len(positions) :
        i < stop /\ ~IsEmpty(hist[positions[i].ticker].df)}

\* lines 170-180: the rows of the positions at inc, in input order
SummaryRows(positions, hist, inc) ==
    PickFrom([i \in 1..Len(positions) |->
                IF i \in inc
                THEN SummaryRow(positions[i],
                                LastPrice(SummaryFrame(
                                    hist[positions[i].ticker].df)))
                ELSE <<>>],
             inc, 1)

\* lines 187-188: the positions of the second pass whose history is not empty
CurveIndices(positions, hist) ==
    {i \in 1..Len(positions) : ~IsEmpty(hist[positions[i].ticker].df)}

\* lines 190-194: groupby("date")["mv"].sum() on date d, over the positions
\* at the indices in inc, each with its own history
CurveValue(positions, hist, inc, d) ==
    SumSeq([i \in 1..Len(positions) |->
              IF i \in inc
              THEN CloseOn(hist[positions[i].ticker].df, d)
                       * positions[i].quantity
              ELSE 0])

\* only the dates every collected history has
CurveDatesInner(positions, hist, inc) ==
    SortedSeq({d \in UNION {DatesOf(hist[positions[i].ticker].df) : i \in inc} :
                  \A i \in inc : d \in DatesOf(hist[positions[i].ticker].df)})

\* line 194: the groups, ascending by date
CurveDates(positions, hist, inc) ==
    SortedSeq(UNION {DatesOf(hist[positions[i].ticker].df) : i \in inc})

\* line 195: eq["portfolio_value"].pct_change().fillna(0.0)
CurveReturns(value) == fillna(pct_change(IntSeries(value)), Zero)

CurveRows(dates, value, returns) ==
    [k \in 1..Len(dates) |->
        [date |-> dates[k], portfolio_value |-> value[k],
         returns |-> returns[k]]]

CurveOfValues(dates, value) == CurveRows(dates, value, CurveReturns(value))

CurveOfDates(positions, hist, inc, dates) ==
    CurveOfValues(dates,
                  [k \in 1..Len(dates) |->
                      CurveValue(positions, hist, inc, dates[k])])

\* lines 193-195
EquityCurve(positions, hist, inc) ==
    CurveOfDates(positions, hist, inc, CurveDates(positions, hist, inc))

\* what a call leaves: status and exception, the returned summary and curve,
\* the history memo, the tickers asked of the providers, and what each pass
\* had appended when the function ended (rows; positions whose series the
\* second pass collected)
Outcome(status, exc, summary, curve, cache, fetched, rowsBuilt, parts) ==
    [status |-> status, exc |-> exc, summary |-> summary, curve |-> curve,
     priceCache |-> cache, fetched |-> fetched, rowsBuilt |-> rowsBuilt,
     curveParts |-> parts]

\* lines 184-196, the second pass having stopped at stop2
CurvePassDone(positions, hist2, cache1, fetched, summary, inc2, stop2) ==
    IF stop2 <= Len(positions)
    THEN Outcome("raise", "KeyError", <<>>, <<>>, cache1, fetched, summary,
                 PickFrom(positions, {i \in inc2 : i < stop2}, 1))
    ELSE Outcome("ok", "", summary, EquityCurve(positions, hist2, inc2),
                 cache1, fetched, summary, PickFrom(positions, inc2, 1))

CurvePassOver(positions, hist2, cache1, fetched, summary, inc2) ==
    CurvePassDone(positions, hist2, cache1, fetched, summary, inc2,
                  StopAt({i \in inc2 :
                            ~CurveColumnsPresent(
                                hist2[positions[i].ticker].df)},
                         Len(positions)))

\* lines 184-196: every call of the second pass is answered from the memo
CurvePass(positions, hist2, cache1, fetched, summary) ==
    CurvePassOver(positions, hist2, cache1, fetched, summary,
                  CurveIndices(positions, hist2))

\* lines 180-182, the first pass having stopped at stop1
FirstPassDone(cfg, mkt, positions, hist, stop1, cache1, fetched, summary) ==
    IF stop1 <= Len(positions)
    THEN Outcome("raise",
                 IF hist[positions[stop1].ticker].status = "raise"
                 THEN hist[positions[stop1].ticker].exc
                 ELSE "KeyError",
                 <<>>, <<>>, cache1, fetched, summary, <<>>)
    ELSE IF summary = <<>>
    THEN Outcome("ok", "", <<>>, <<>>, cache1, fetched, <<>>, <<>>)
    ELSE CurvePass(positions, Histories(cache1, cfg, mkt), cache1, fetched,
                   summary)

FirstPassAsked(cache, cfg, mkt, positions, hist, stop1, asked) ==
    FirstPassDone(cfg, mkt, positions, hist, stop1,
                  StoreHistories(cache, hist, asked, "2y"),
                  {t \in asked : hist[t].fetched},
                  SummaryRows(positions, hist,
                              SummaryIndices(positions, hist, stop1)))

FirstPassStopped(cache, cfg, mkt, positions, hist, stop1) ==
    FirstPassAsked(cache, cfg, mkt, positions, hist, stop1,
                   Asked(positions, stop1))

FirstPass(cache, cfg, mkt, positions, hist) ==
    FirstPassStopped(cache, cfg, mkt, positions, hist,
                     StopAt(FirstPassRaises(positions, hist), Len(positions)))

\* the body of build_portfolio_valuation
ValuationBody(cache, cfg, mkt, positions) ==
    FirstPass(cache, cfg, mkt, positions, Histories(cache, cfg, mkt))

NoValuations == [k \in {} |-> 0]

ValuationHit(vcache, positions) == positions \in DOMAIN vcache

\* the memo entry a returned value leaves, none when the body raised
StoreValuation(vcache, positions, r) ==
    IF r.status = "ok"
    THEN (positions :> [summary |-> r.summary, curve |-> r.curve]) @@ vcache
    ELSE vcache

Valued(r, vcache, hit) ==
    [status |-> r.status, exc |-> r.exc, summary |-> r.summary,
     curve |-> r.curve, priceCache |-> r.priceCache, valCache |-> vcache,
     fetched |-> r.fetched, rowsBuilt |-> r.rowsBuilt,
     curveParts |-> r.curveParts, hit |-> hit]

ValuationMiss(vcache, positions, r) ==
    Valued(r, StoreValuation(vcache, positions, r), FALSE)

\* build_portfolio_valuation(positions) behind its memo
build_portfolio_valuation(vcache, cache, cfg, mkt, positions) ==
    IF ValuationHit(vcache, positions)
    THEN Valued(Outcome("ok", "", vcache[positions].summary,
                        vcache[positions].curve, cache, {}, <<>>, <<>>),
                vcache, TRUE)
    ELSE ValuationMiss(vcache, positions,
                       ValuationBody(cache, cfg, mkt, positions))

(***************************************************************************)
(* The Portfolio page (lines 260-294).  shown is what the run left on the  *)
(* page: kind "nofile" (st.info, nothing uploaded), "error" (st.error      *)
(* "Erro ao processar CSV: " followed by msg, the exception's text),       *)
(* "unvalued" (st.info, empty summary) or "valued" (chart and KPIs).  The  *)
(* annualised figures of lines 283-290 are formatted for display only and  *)
(* are not modelled.                                                       *)
(***************************************************************************)
IdleShown ==
    [kind |-> "idle", msg |-> "", columns |-> <<>>, pf |-> <<>>,
     valuation |-> "not_run", summary |-> <<>>, curve |-> <<>>,
     fetched |-> {}, rowsBuilt |-> <<>>, curveParts |-> <<>>, asof |-> <<>>]

\* lines 267-292, the file having parsed; asof records what the providers
\* answered while the run was made
PortfolioValued(parsed, val) ==
    /\ shown' =
          [kind |-> IF val.status = "raise" THEN "error"
                    ELSE IF val.summary = <<>> THEN "unvalued"
                    ELSE "valued",
           msg |-> val.exc,
           columns |-> parsed.columns,
           pf |-> parsed.pf,
           valuation |-> IF val.hit THEN "hit"
                         ELSE IF val.status = "raise" THEN "raised"
                         ELSE "returned",
           summary |-> val.summary,
           curve |-> val.curve,
           fetched |-> val.fetched,
           rowsBuilt |-> val.rowsBuilt,
           curveParts |-> val.curveParts,
           asof |-> market]
    /\ priceCache' = val.priceCache
    /\ valCache' = val.valCache

\* lines 264-292
PortfolioParsed(parsed) ==
    IF parsed.status = "raise"
    THEN /\ shown' = [IdleShown EXCEPT !.kind = "error",
                                       !.msg = parsed.exc,
                                       !.columns = parsed.columns]
         /\ UNCHANGED <<priceCache, valCache>>
    ELSE PortfolioValued(parsed,
                         build_portfolio_valuation(valCache, priceCache,
                                                   config, market, parsed.pf))

PortfolioPage(file, limit) ==
    /\ runs < limit
    /\ runs' = runs + 1
    /\ PortfolioParsed(portfolio_from_csv(file))
    /\ UNCHANGED <<config, market, risk, bt>>

\* line 293: nothing uploaded yet
PortfolioPageNoFile(limit) ==
    /\ runs < limit
    /\ runs' = runs + 1
    /\ shown' = [IdleShown EXCEPT !.kind = "nofile"]
    /\ UNCHANGED <<config, market, priceCache, valCache, risk, bt>>

\* the provider's answer for ticker t becomes p
ProviderChange(t, p) ==
    /\ market[t] # p
    /\ market' = [market EXCEPT ![t] = p]
    /\ UNCHANGED <<config, priceCache, valCache, runs, shown, risk, bt>>

(***************************************************************************)
(* The Risk page (lines 309-331).  An exception here is not caught: the    *)
(* run ends with Streamlit's traceback (kind "exception").  The VaR of     *)
(* line 328 and the scatter plot are display only.                         *)
(***************************************************************************)
\* line 316: pd.merge(..., on="date") keeps the dates both frames have, in
\* the left frame's order
MergedDates(a, b) == SortedSeq(DatesOf(a) \cap DatesOf(b))

ClosesOn(df, dates) ==
    [k \in 1..Len(dates) |-> FromInt(CloseOn(df, dates[k]))]

\* line 319: df.dropna() keeps the rows without a NaN
dropna(ra, rb) == {k \in 1..Len(ra) : ~IsNaN(ra[k]) /\ ~IsNaN(rb[k])}

Deviations(x, m) == [t \in 1..Len(x) |-> FSub(x[t], m)]

Products(u, v) == [t \in 1..Len(u) |-> FMul(u[t], v[t])]

Squares(u) == Products(u, u)

\* np.var(x): the mean of the squared deviations (ddof = 0)
np_var(x) == FMean(Squares(Deviations(x, FMean(x))))

\* np.cov(y, x.T)[0, 1]: the summed products of deviations over N - 1
np_cov(y, x) ==
    FDiv(FSum(Products(Deviations(y, FMean(y)), Deviations(x, FMean(x)))),
         FromInt(Len(x) - 1))

\* line 323
Beta(y, x) ==
    IF FGt(np_var(x), Zero) THEN FDiv(np_cov(y, x), np_var(x)) ELSE NaN

\* line 324
Alpha(y, x, beta) == FSub(FMean(y), FMul(beta, FMean(x)))

RiskMetrics(dates, raCol, rbCol, y, x, beta) ==
    [kind |-> "metrics", exc |-> "", dates |-> dates,
     r_a_col |-> raCol, r_b_col |-> rbCol, r_a |-> y, r_b |-> x,
     beta |-> beta, alpha |-> Alpha(y, x, beta)]

RiskRegression(dates, raCol, rbCol, y, x) ==
    RiskMetrics(dates, raCol, rbCol, y, x, Beta(y, x))

\* lines 319-322
RiskDropped(dates, raCol, rbCol, kept) ==
    RiskRegression(dates, raCol, rbCol,
                   PickFrom(raCol, kept, 1), PickFrom(rbCol, kept, 1))

\* lines 317-318
RiskReturns(dates, raCol, rbCol) ==
    RiskDropped(dates, raCol, rbCol, dropna(raCol, rbCol))

\* lines 316-318
RiskMerged(a, b, dates) ==
    RiskReturns(dates, pct_change(ClosesOn(a, dates)),
                pct_change(ClosesOn(b, dates)))

RiskBlank(kind, exc) ==
    [kind |-> kind, exc |-> exc, dates |-> <<>>, r_a_col |-> <<>>,
     r_b_col |-> <<>>, r_a |-> <<>>, r_b |-> <<>>, beta |-> NaN,
     alpha |-> NaN]

IdleRisk == RiskBlank("idle", "")

\* lines 311-331, the two calls having answered a and b
RiskOutcome(a, b) ==
    IF a.status = "raise" THEN RiskBlank("exception", a.exc)
    ELSE IF b.status = "raise" THEN RiskBlank("exception", b.exc)
    ELSE IF IsEmpty(a.df) \/ IsEmpty(b.df) THEN RiskBlank("info", "")
    ELSE IF ~CurveColumnsPresent(a.df) \/ ~CurveColumnsPresent(b.df)
    THEN RiskBlank("exception", "KeyError")
    ELSE RiskMerged(a.df, b.df, MergedDates(a.df, b.df))

RiskCalls(asset, bench, hist) ==
    /\ risk' = RiskOutcome(hist[asset], hist[bench])
    /\ priceCache' =
          StoreHistories(priceCache, hist,
                         IF hist[asset].status = "raise"
                         THEN {asset} ELSE {asset, bench},
                         "3y")

RiskPage(asset, bench, limit) ==
    /\ runs < limit
    /\ runs' = runs + 1
    /\ RiskCalls(asset, bench, HistoriesFor(priceCache, config, market, "3y"))
    /\ UNCHANGED <<config, market, valCache, shown, bt>>

(***************************************************************************)
(* The Backtest page (lines 334-366).  The annualised figures of lines     *)
(* 357-366 are display only; the return series ann_metrics derives is      *)
(* kept.                                                                   *)
(***************************************************************************)
WindowSum(close, t, w) == SumSeq(SubSeq(close, t - w + 1, t))

\* Series.rolling(w).mean(): undefined until w rows are there
rolling_mean(close, w) ==
    [t \in 1..Len(close) |->
        IF t < w THEN NaN ELSE Rat(WindowSum(close, t, w), w)]

\* line 345: (SMAf > SMAs).astype(int)
Signal(smaf, smas) ==
    [t \in 1..Len(smaf) |-> IF FGt(smaf[t], smas[t]) THEN 1 ELSE 0]

\* the returns without the fillna
AssetReturnsUnfilled(close) == pct_change(IntSeries(close))

\* line 346: Close.pct_change().fillna(0)
AssetReturns(close) == fillna(pct_change(IntSeries(close)), Zero)

\* line 347: signal.shift(1).fillna(0)
LaggedSignal(signal) == fillna(shift1(IntSeries(signal)), Zero)

\* the signal of the same period, without the shift
StrategyReturnsUnlagged(signal, ret) == Products(IntSeries(signal), ret)

\* line 347: signal.shift(1).fillna(0) * ret
StrategyReturns(signal, ret) == Products(LaggedSignal(signal), ret)

\* line 356: the returns ann_metrics takes of an equity series
MetricReturns(series) == fillna(pct_change(series), Zero)

BtBlank(kind, exc) ==
    [kind |-> kind, exc |-> exc, fast |-> 0, slow |-> 0, close |-> <<>>,
     smaf |-> <<>>, smas |-> <<>>, signal |-> <<>>, ret |-> <<>>,
     strat |-> <<>>, eq_ret |-> <<>>, eq_strat |-> <<>>, r_bh |-> <<>>,
     r_st |-> <<>>]

IdleBt == BtBlank("idle", "")

\* lines 348-362: the chart needs df["date"]; the metrics come after it
BtCurves(df, fast, slow, close, smaf, smas, signal, ret, strat, eqr, eqs) ==
    [kind |-> IF "date" \in Columns(df) THEN "metrics" ELSE "exception",
     exc |-> IF "date" \in Columns(df) THEN "" ELSE "KeyError",
     fast |-> fast, slow |-> slow, close |-> close, smaf |-> smaf,
     smas |-> smas, signal |-> signal, ret |-> ret, strat |-> strat,
     eq_ret |-> eqr, eq_strat |-> eqs,
     r_bh |-> IF "date" \in Columns(df) THEN MetricReturns(eqr) ELSE <<>>,
     r_st |-> IF "date" \in Columns(df) THEN MetricReturns(eqs) ELSE <<>>]

BtStrategy(df, fast, slow, close, smaf, smas, signal, ret, strat) ==
    BtCurves(df, fast, slow, close, smaf, smas, signal, ret, strat,
             cumprod1p(ret), cumprod1p(strat))

BtSignal(df, fast, slow, close, smaf, smas, signal, ret) ==
    BtStrategy(df, fast, slow, close, smaf, smas, signal, ret,
               StrategyReturns(signal, ret))

BtAverages(df, fast, slow, close, smaf, smas) ==
    BtSignal(df, fast, slow, close, smaf, smas, Signal(smaf, smas),
             AssetReturns(close))

\* lines 342-347
BtFrame(df, fast, slow, close) ==
    BtAverages(df, fast, slow, close, rolling_mean(close, fast),
               rolling_mean(close, slow))

\* lines 338-366, the call having answered h
BacktestOutcome(h, fast, slow) ==
    IF h.status = "raise" THEN BtBlank("exception", h.exc)
    ELSE IF IsEmpty(h.df) THEN BtBlank("info", "")
    ELSE BtFrame(h.df, fast, slow,
                 [k \in 1..Len(h.df.bars) |-> h.df.bars[k].close])

BacktestCall(ticker, fast, slow, hist) ==
    /\ bt' = BacktestOutcome(hist[ticker], fast, slow)
    /\ priceCache' = StoreHistories(priceCache, hist, {ticker}, "5y")

BacktestPage(ticker, fast, slow, limit) ==
    /\ runs < limit
    /\ runs' = runs + 1
    /\ BacktestCall(ticker, fast, slow,
                    HistoriesFor(priceCache, config, market, "5y"))
    /\ UNCHANGED <<config, market, valCache, shown, risk>>

(***************************************************************************)
(* Inputs.                                                                 *)
(***************************************************************************)
Dates == 1..MaxDate

\* the market's close of ticker t on date d
ClosePrice(t, d) == IF t = "AAA" THEN d + 1 ELSE ((2 * d) % 3) + 1

\* t's bars on the dates D, ascending
BarsOn(t, ds) ==
    [k \in 1..Len(ds) |-> [date |-> ds[k], close |-> ClosePrice(t, ds[k])]]

TableBars(t, D) == BarsOn(t, SortedSeq(D))

SeqsUpTo(S, n) == UNION {[1..k -> S] : k \in 0..n}

\* a short, a closed and a long lot
Lots ==
    {[quantity |-> -1, cost_basis |-> 3],
     [quantity |-> 0, cost_basis |-> 1],
     [quantity |-> 2, cost_basis |-> 1]}

RowChoices(texts, lots) ==
    {[ticker |-> t, quantity |-> l.quantity, cost_basis |-> l.cost_basis] :
        t \in texts, l \in lots}

GoodHeader == <<"ticker", "quantity", "cost_basis">>

Headers ==
    {GoodHeader,
     <<" Ticker", "Quantity ", " COST_BASIS">>,
     <<"price", "cost_basis", "TICKER ", "quantity">>,
     <<"ticker", "quantity">>,
     <<"ticker", " Price", "Cost_Basis">>,
     <<" QUANTITY", "cost_basis">>,
     <<"price">>,
     <<"ticker", " Ticker", "quantity", "cost_basis">>}

\* a fresh server process under configuration c, the providers answering m
Fresh(c, m) ==
    /\ config = c
    /\ market = m
    /\ priceCache = EmptyPriceCache
    /\ valCache = NoValuations
    /\ runs = 0
    /\ shown = IdleShown
    /\ risk = IdleRisk
    /\ bt = IdleBt

(***************************************************************************)
(* SpecChain: one run of the Portfolio page of a fresh process, under      *)
(* every configuration and every outcome of the fallback chain per ticker. *)
(***************************************************************************)
ChainProfiles(t) ==
    [obb : {"raise", "notframe", "frame"}, yf : {"raise", "ok"},
     bars : {<<>>, TableBars(t, Dates)}]

ChainFiles ==
    [header : Headers,
     rows : SeqsUpTo(RowChoices({"AAA", " Bbb"},
                                {[quantity |-> 2, cost_basis |-> 1]}),
                     MaxPositions)]

InitChain ==
    \E c \in Configs :
        \E m \in [Tickers -> UNION {ChainProfiles(t) : t \in Tickers}] :
            /\ \A t \in Tickers : m[t] \in ChainProfiles(t)
            /\ Fresh(c, m)

NextChain ==
    \/ \E f \in ChainFiles : PortfolioPage(f, 1)
    \/ PortfolioPageNoFile(1)

SpecChain == InitChain /\ [][NextChain]_vars

(***************************************************************************)
(* SpecValuation: one run of the Portfolio page on a well-formed file,     *)
(* every provider answering, over every choice of the dates each ticker    *)
(* traded on.                                                              *)
(***************************************************************************)
ValuationProfiles(t) ==
    {[obb |-> "frame", yf |-> "ok", bars |-> TableBars(t, D)] :
        D \in SUBSET Dates}

ValuationFiles ==
    [header : {GoodHeader},
     rows : SeqsUpTo(RowChoices({"AAA", "BBB"}, Lots), MaxPositions)]

ValuationConfigs ==
    {c \in Configs :
        c.yf /\ (c.sdk = "none" \/ (c.sdk = "v4" /\ c.rawDate = "column"))}

InitValuation ==
    \E c \in ValuationConfigs :
        \E m \in [Tickers -> UNION {ValuationProfiles(t) : t \in Tickers}] :
            /\ \A t \in Tickers : m[t] \in ValuationProfiles(t)
            /\ Fresh(c, m)

NextValuation == \E f \in ValuationFiles : PortfolioPage(f, 1)

SpecValuation == InitValuation /\ [][NextValuation]_vars

(***************************************************************************)
(* SpecRisk: one run of the Risk page, yfinance answering with any closes. *)
(***************************************************************************)
\* every series of up to n closes from C, on the dates 1, 2, ...
FreeBars(n, C) ==
    {[k \in 1..Len(cs) |-> [date |-> k, close |-> cs[k]]] :
        cs \in SeqsUpTo(C, n)}

YfOnlyConfigs == {c \in Configs : c.yf /\ ~c.openbb}

RiskProfiles ==
    [obb : {"raise"}, yf : {"ok"}, bars : FreeBars(MaxRiskBars, 1..(MaxClose + 1))]

InitRisk ==
    \E c \in YfOnlyConfigs : \E m \in [Tickers -> RiskProfiles] : Fresh(c, m)

NextRisk == \E a \in Tickers, b \in Tickers : RiskPage(a, b, 1)

SpecRisk == InitRisk /\ [][NextRisk]_vars

(***************************************************************************)
(* SpecBacktest: one run of the Backtest page over any closes of AAA.  The *)
(* sliders of lines 336-337 offer 5..50 and 20..200; the windows here are  *)
(* scaled down to 1..MaxWindow and 1..MaxWindow + 1 so that short series   *)
(* reach every case of the moving averages.                                *)
(***************************************************************************)
FastWindows == 1..MaxWindow

SlowWindows == 1..(MaxWindow + 1)

BtConfigs ==
    {c \in Configs : c.yf /\ (c.sdk = "none" \/ (c.sdk = "v4" /\ c.rawDate = "index"))}

InitBacktest ==
    \E c \in BtConfigs :
        \E b \in FreeBars(MaxBtBars, 1..MaxClose) :
            Fresh(c, [t \in Tickers |->
                        [obb |-> "frame", yf |-> "ok",
                         bars |-> IF t = "AAA" THEN b ELSE <<>>]])

NextBacktest ==
    \E t \in Tickers, f \in FastWindows, s \in SlowWindows :
        BacktestPage(t, f, s, 1)

SpecBacktest == InitBacktest /\ [][NextBacktest]_vars

(***************************************************************************)
(* SpecReturns: one run of any of the three pages that compute returns.    *)
(***************************************************************************)
InitReturns ==
    \E c \in YfOnlyConfigs :
        \E m \in [Tickers -> UNION {ValuationProfiles(t) : t \in Tickers}] :
            /\ \A t \in Tickers : m[t] \in ValuationProfiles(t)
            /\ Fresh(c, m)

NextReturns ==
    \/ \E f \in ValuationFiles : PortfolioPage(f, 1)
    \/ \E a \in Tickers, b \in Tickers : RiskPage(a, b, 1)
    \/ \E t \in Tickers, f \in FastWindows, s \in SlowWindows :
           BacktestPage(t, f, s, 1)

SpecReturns == InitReturns /\ [][NextReturns]_vars

(***************************************************************************)
(* SpecSession: a server process serving several runs of the Portfolio     *)
(* page about AAA while the provider's data changes between them.          *)
(***************************************************************************)
SessionProfiles ==
    {[obb |-> "raise", yf |-> "raise", bars |-> <<>>]}
        \cup {[obb |-> "raise", yf |-> "ok", bars |-> TableBars("AAA", D)] :
                 D \in {{}, {1}, Dates}}

SessionFiles ==
    [header : {GoodHeader},
     rows : SeqsUpTo(RowChoices({"AAA"},
                                {[quantity |-> -1, cost_basis |-> 3],
                                 [quantity |-> 2, cost_basis |-> 1]}),
                     1)]

InitSession ==
    \E c \in YfOnlyConfigs :
        \E p \in SessionProfiles :
            Fresh(c, [t \in Tickers |->
                        IF t = "AAA" THEN p
                        ELSE [obb |-> "raise", yf |-> "ok", bars |-> <<>>]])

NextSession ==
    \/ \E f \in SessionFiles : PortfolioPage(f, MaxRuns)
    \/ \E p \in SessionProfiles : ProviderChange("AAA", p)

SpecSession == InitSession /\ [][NextSession]_vars

(***************************************************************************)
(* Properties.                                                             *)
(***************************************************************************)
\* what the fallback chain answers for ticker t now
Answer(t) == FetchHistory(config, market[t])

\* the chain answers a history that is not empty
HasData(t) == Answer(t).status = "ok" /\ ~IsEmpty(Answer(t).df)

Held(pos) == HasData(pos.ticker)

\* the input columns of summary rows
Inputs(rows) ==
    [i \in 1..Len(rows) |->
        [ticker |-> rows[i].ticker, quantity |-> rows[i].quantity,
         cost_basis |-> rows[i].cost_basis]]

\* the close of the latest bar the chain answers for t
MostRecentClose(t) ==
    (CHOOSE b \in Range(Answer(t).df.bars) :
        \A c \in Range(Answer(t).df.bars) : c.date <= b.date).close

\* the valuation of the positions shown, computed from what the providers
\* answered during that run, nothing memoised
FreshValuation ==
    ValuationBody(EmptyPriceCache, config, shown.asof, shown.pf)

\* C1: build_portfolio_valuation never raises, whatever each ticker's fetch
\* does (history, empty history, a provider failing): the positions without
\* data are absent from the summary, the others are valued, and when no
\* ticker has data the summary and the curve are both empty.
C1_FetchFailuresAreSkipped ==
    shown.valuation # "not_run" =>
        /\ shown.valuation # "raised"
        /\ Inputs(shown.summary) = SelectSeq(shown.pf, Held)
        /\ (\A i \in 1..Len(shown.pf) : ~Held(shown.pf[i])) =>
               (shown.summary = <<>> /\ shown.curve = <<>>)

\* C2 as stated: no state carries over between calls: every result is
\* computed from the positions and from what the provider returns at the
\* time of the call.
C2_ResultReflectsProviderNow ==
    shown.valuation \in {"hit", "returned"} =>
        /\ FreshValuation.status = "ok"
        /\ FreshValuation.summary = shown.summary
        /\ FreshValuation.curve = shown.curve

\* C2 as amended: state carries over in the two memos.  Every memoised
\* valuation, and so every result shown, is the valuation of its positions
\* over the memoised histories, computed without asking a provider: it is
\* decided by what the provider returned when each ticker was first fetched.
C2_ResultComesFromMemo ==
    /\ \A p \in DOMAIN valCache :
          /\ ValuationBody(priceCache, config, market, p).fetched = {}
          /\ ValuationBody(priceCache, config, market, p).status = "ok"
          /\ valCache[p].summary =
                 ValuationBody(priceCache, config, market, p).summary
          /\ valCache[p].curve =
                 ValuationBody(priceCache, config, market, p).curve
    /\ shown.valuation \in {"hit", "returned"} =>
          /\ shown.pf \in DOMAIN valCache
          /\ valCache[shown.pf].summary = shown.summary
          /\ valCache[shown.pf].curve = shown.curve

\* C2 witness: a call answered by the memo showed a summary that differs
\* from the one the provider's data at the time of that call gives.
C2_StaleResultShown ==
    /\ shown.valuation = "hit"
    /\ shown.summary # <<>>
    /\ FreshValuation.status = "ok"
    /\ FreshValuation.summary # shown.summary

\* C3: when every asset return is twice the benchmark return, over at least
\* two observations of non-zero benchmark variance, beta is 2 and alpha 0.
C3_DoubledReturnsGiveBetaTwo ==
    (/\ risk.kind = "metrics"
     /\ Len(risk.r_b) >= 2
     /\ np_var(risk.r_b) # Zero
     /\ \A k \in 1..Len(risk.r_b) :
           risk.r_a[k] = FMul(FromInt(2), risk.r_b[k]))
    => (risk.beta = FromInt(2) /\ risk.alpha = Zero)

\* C4: an upload lacking a required column is rejected with the validation
\* message before any fetch or valuation, and no other error of the page
\* carries that message.
C4_MissingColumnsRejectedFirst ==
    /\ (/\ shown.kind \notin {"idle", "nofile"}
        /\ ~({"ticker", "quantity", "cost_basis"} \subseteq Range(shown.columns)))
       => (/\ shown.kind = "error"
           /\ shown.msg = MissingColumnsMessage
           /\ shown.valuation = "not_run"
           /\ shown.fetched = {}
           /\ priceCache = EmptyPriceCache
           /\ valCache = NoValuations)
    /\ (/\ shown.kind = "error"
        /\ {"ticker", "quantity", "cost_basis"} \subseteq Range(shown.columns))
       => shown.msg # MissingColumnsMessage

\* C4 witness: a file with some but not all required columns was rejected.
C4_PartialHeaderRejected ==
    /\ shown.kind = "error"
    /\ shown.msg = MissingColumnsMessage
    /\ "ticker" \in Range(shown.columns)
    /\ "cost_basis" \notin Range(shown.columns)

\* the portfolio and backtest return series start at 0, one value per row
FilledReturnsStartAtZero ==
    /\ shown.curve # <<>> => shown.curve[1].returns = Zero
    /\ bt.kind \in {"metrics", "exception"} =>
          (Len(bt.ret) = Len(bt.close) /\ bt.ret[1] = Zero)
    /\ bt.kind = "metrics" =>
          /\ Len(bt.r_bh) = Len(bt.eq_ret) /\ bt.r_bh[1] = Zero
          /\ Len(bt.r_st) = Len(bt.eq_strat) /\ bt.r_st[1] = Zero

\* C5 as stated: every return series, the risk page's too, is as long as its
\* input and starts with exactly 0.
C5_EveryReturnSeriesStartsAtZero ==
    /\ FilledReturnsStartAtZero
    /\ (risk.kind = "metrics" /\ risk.dates # <<>>) =>
          /\ Len(risk.r_a) = Len(risk.dates) /\ risk.r_a[1] = Zero
          /\ Len(risk.r_b) = Len(risk.dates) /\ risk.r_b[1] = Zero

\* C5 as amended: the equity-curve, buy-and-hold and ann_metrics returns are
\* as long as their input and start with exactly 0; the risk page's r_a and
\* r_b are NaN in their first row, which dropna removes, so the regression
\* sample is one row shorter than the merged closes.
C5_FilledSeriesStartAtZero ==
    /\ FilledReturnsStartAtZero
    /\ (risk.kind = "metrics" /\ risk.dates # <<>>) =>
          /\ Len(risk.r_a_col) = Len(risk.dates) /\ IsNaN(risk.r_a_col[1])
          /\ Len(risk.r_b_col) = Len(risk.dates) /\ IsNaN(risk.r_b_col[1])
          /\ Len(risk.r_a) = Len(risk.dates) - 1
          /\ Len(risk.r_b) = Len(risk.dates) - 1
          /\ \A k \in 1..Len(risk.r_a) :
                /\ risk.r_a[k] = risk.r_a_col[k + 1]
                /\ risk.r_b[k] = risk.r_b_col[k + 1]

\* C5 witness: the risk page regressed on a sample whose first return is
\* not 0.
C5_RiskSampleStartsWithAReturn ==
    /\ risk.kind = "metrics"
    /\ Len(risk.dates) >= 2
    /\ risk.r_a[1] # Zero

\* C6: the returned curve has one row per date of the union of the kept
\* positions' histories, strictly ascending, each valued at the sum of
\* quantity x close over the kept positions with a bar on that date.
C6_CurveCoversDateUnion ==
    (shown.valuation = "returned" /\ shown.summary # <<>>) =>
        /\ {shown.curve[k].date : k \in 1..Len(shown.curve)} =
               UNION {DatesOf(Answer(shown.pf[i].ticker).df) :
                         i \in {j \in 1..Len(shown.pf) : Held(shown.pf[j])}}
        /\ \A k \in 1..(Len(shown.curve) - 1) :
              shown.curve[k].date < shown.curve[k + 1].date
        /\ \A k \in 1..Len(shown.curve) :
              shown.curve[k].portfolio_value =
                  SumSeq([i \in 1..Len(shown.pf) |->
                            IF Held(shown.pf[i])
                            THEN shown.pf[i].quantity
                                     * CloseOn(Answer(shown.pf[i].ticker).df,
                                               shown.curve[k].date)
                            ELSE 0])

\* C6 witness: a returned curve of two dates, one of them without a bar of
\* some kept position.
C6_CurveWithAGap ==
    /\ shown.valuation = "returned"
    /\ Len(shown.curve) >= 2
    /\ \E i \in 1..Len(shown.pf), k \in 1..Len(shown.curve) :
          /\ Held(shown.pf[i])
          /\ shown.pf[i].quantity # 0
          /\ shown.curve[k].date \notin DatesOf(Answer(shown.pf[i].ticker).df)

\* both windows are full at t and the mean of the last fast closes is strictly
\* greater than the mean of the last slow closes (compared as cross products)
FastAboveSlow(close, t, fast, slow) ==
    /\ t >= fast
    /\ t >= slow
    /\ slow * SumSeq(SubSeq(close, t - fast + 1, t))
           > fast * SumSeq(SubSeq(close, t - slow + 1, t))

\* C7: the signal at t is 1 exactly when both averages are defined at t and
\* the fast one is strictly greater; the strategy return is 0 at the first
\* row and signal(t-1) x asset return(t) after it.
C7_SignalLagsOnePeriod ==
    bt.kind \in {"metrics", "exception"} =>
        \A t \in 1..Len(bt.close) :
            /\ bt.signal[t] =
                   IF FastAboveSlow(bt.close, t, bt.fast, bt.slow)
                   THEN 1 ELSE 0
            /\ bt.strat[t] =
                   IF t = 1 THEN Zero
                   ELSE FMul(FromInt(bt.signal[t - 1]),
                             Rat(bt.close[t] - bt.close[t - 1],
                                 bt.close[t - 1]))

\* C7 witness: the signal fell from 1 to 0 on a row whose return is not 0,
\* so the strategy earned that return.
C7_ExitEarnsThePriorSignal ==
    /\ bt.kind = "metrics"
    /\ \E t \in 2..Len(bt.close) :
          /\ bt.signal[t - 1] = 1
          /\ bt.signal[t] = 0
          /\ bt.ret[t] # Zero
          /\ bt.strat[t] = bt.ret[t]

\* C8: the returned summary is the input positions with data, in input
\* order, one row each, duplicate tickers kept apart.
C8_SummaryIsInputSubsequence ==
    shown.valuation = "returned" =>
        Inputs(shown.summary) = SelectSeq(shown.pf, Held)

\* C8 witness: a returned summary with two rows of the same ticker.
C8_DuplicateTickerKeptApart ==
    /\ shown.valuation = "returned"
    /\ Len(shown.summary) = 2
    /\ shown.summary[1].ticker = shown.summary[2].ticker
    /\ shown.summary[1].quantity # shown.summary[2].quantity

\* C9: every summary row has the most recent close as last_price,
\* quantity x last_price as market_value and
\* (last_price - cost_basis) x quantity as unrealized_pnl, for histories
\* ascending by date, as the providers deliver them.
C9_RowArithmetic ==
    shown.valuation = "returned" =>
        \A i \in 1..Len(shown.summary) :
            /\ shown.summary[i].last_price =
                   MostRecentClose(shown.summary[i].ticker)
            /\ shown.summary[i].market_value =
                   shown.summary[i].quantity * shown.summary[i].last_price
            /\ shown.summary[i].unrealized_pnl =
                   (shown.summary[i].last_price - shown.summary[i].cost_basis)
                       * shown.summary[i].quantity

\* C9 witness: a short row and a zero-quantity row over histories of two
\* bars.
C9_ShortAndZeroRows ==
    /\ shown.valuation = "returned"
    /\ \E i \in 1..Len(shown.summary) :
          /\ shown.summary[i].quantity < 0
          /\ shown.summary[i].unrealized_pnl > 0
          /\ Len(Answer(shown.summary[i].ticker).df.bars) >= 2
    /\ \E j \in 1..Len(shown.summary) :
          /\ shown.summary[j].quantity = 0
          /\ shown.summary[j].market_value = 0
          /\ shown.summary[j].unrealized_pnl = 0

\* C10: the two passes include the same positions: when the first pass ran
\* to its end, the positions with a summary row are those whose series the
\* curve pass collected, and a summary with rows is returned, not replaced
\* by an exception.
C10_PassesAgree ==
    (shown.valuation \in {"returned", "raised"} /\ shown.msg # "ProviderError")
    => /\ Inputs(shown.rowsBuilt) = shown.curveParts
       /\ shown.rowsBuilt # <<>> => shown.valuation = "returned"

====
